---- MODULE Spec2Model ----
(***************************************************************************)
(* Model of capia/app.py: the CSV ingestion pipeline                       *)
(* (upload_csv -> process_csv) with its helpers detect_delimiter,          *)
(* normalize_column_name, parse_amount and parse_date, and the database    *)
(* session it writes through.                                              *)
(*                                                                         *)
(* A Python str is modelled as a sequence of one-character strings, so     *)
(* that the character-level code (count, replace, isdigit, re.sub, lower,  *)
(* csv tokenization) is computed rather than assumed.                      *)
(***************************************************************************)
EXTENDS Integers, Sequences, FiniteSets, TLC

VARIABLES
    today,           \* the clock: the date datetime.now() returns
    session,         \* db.session: Transaction objects added, not yet committed
    sink,            \* the transaction table: committed rows, in insertion order
    pc,              \* position of the request handler: "idle", "loop", "done"
    file,            \* the uploaded file of the current request: its header and rows
    data_rows,       \* process_csv: data_rows
    idx,             \* process_csv: 1-based position of the for loop in data_rows
    processed_data,  \* process_csv: processed_data
    result,          \* the response of the current request
    sink0,           \* the transaction table as it was when the request began
    today0,          \* the clock when the request began
    prev,            \* the first completed request: its file, clock and response
    value,           \* argument of a direct call of parse_amount
    parsed,          \* what that call returned or raised
    sample_data,     \* argument of a direct call of detect_delimiter
    detected         \* what that call returned

vars == <<today, session, sink, pc, file, data_rows, idx, processed_data,
          result, sink0, today0, prev,
          value, parsed, sample_data, detected>>

pipelineVars == <<today, session, sink, pc, file, data_rows, idx,
                  processed_data, result, sink0, today0, prev>>
amountVars == <<value, parsed>>
delimiterVars == <<sample_data, detected>>

-----------------------------------------------------------------------------
(* Bounds *)

MaxRows == 2
MaxSink == 2
MaxAmountLen == 4
MaxSampleLen == 4

-----------------------------------------------------------------------------
(* Characters *)

NoValue == "none"

DigitChars == <<"0", "1", "2", "3", "4", "5", "6", "7", "8", "9">>
UpperChars == <<"A", "B", "C", "D", "E", "F", "G", "H", "I", "J", "K", "L", "M",
                "N", "O", "P", "Q", "R", "S", "T", "U", "V", "W", "X", "Y", "Z">>
LowerChars == <<"a", "b", "c", "d", "e", "f", "g", "h", "i", "j", "k", "l", "m",
                "n", "o", "p", "q", "r", "s", "t", "u", "v", "w", "x", "y", "z">>

\* U+00B2 SUPERSCRIPT TWO, written by name: a character for which str.isdigit()
\* is True although it is no decimal digit (str.isdecimal() is False).
SuperscriptTwo == "sup2"

Range(s) == {s[i] : i \in DOMAIN s}

IsAsciiDigit(c) == c \in Range(DigitChars)
IsAsciiLetter(c) == c \in Range(UpperChars) \cup Range(LowerChars)

IndexOf(s, c) == CHOOSE i \in DOMAIN s : s[i] = c

DigitValue(c) == IndexOf(DigitChars, c) - 1

\* str.count(c) for a one-character c
Count(s, c) == Cardinality({i \in DOMAIN s : s[i] = c})

\* str.replace(c, '') for a one-character c
RemoveChar(s, c) == SelectSeq(s, LAMBDA x : x # c)

\* str.lower(), on the ASCII range
LowerChar(c) == IF c \in Range(UpperChars) THEN LowerChars[IndexOf(UpperChars, c)] ELSE c
str_lower(s) == [i \in DOMAIN s |-> LowerChar(s[i])]

\* int(s) for a string of ASCII digits
RECURSIVE ToInt(_)
ToInt(s) == IF s = <<>> THEN 0
            ELSE 10 * ToInt(SubSeq(s, 1, Len(s) - 1)) + DigitValue(s[Len(s)])

\* str(n) for a natural number n
RECURSIVE IntToStr(_)
IntToStr(n) == IF n < 10 THEN <<DigitChars[n + 1]>>
               ELSE IntToStr(n \div 10) \o <<DigitChars[(n % 10) + 1]>>

\* '%0<w>d' % n
RECURSIVE ZeroPad(_, _)
ZeroPad(s, w) == IF Len(s) >= w THEN s ELSE ZeroPad(<<"0">> \o s, w)

-----------------------------------------------------------------------------
(* detect_delimiter *)

delimiters == <<",", ";", "|">>

\* Variant: the last of the greatest counts wins (max over reversed keys)
detect_delimiter_last_wins(sample) ==
    LET counts == [i \in DOMAIN delimiters |-> Count(sample, delimiters[i])]
        best == CHOOSE i \in DOMAIN delimiters :
                    /\ \A j \in DOMAIN delimiters : counts[j] <= counts[i]
                    /\ \A j \in DOMAIN delimiters : j > i => counts[j] < counts[i]
    IN  delimiters[best]

\* max(counts, key=counts.get): a dict iterates in insertion order and max
\* keeps the first of the greatest, so a later candidate wins only with a
\* strictly greater count.
detect_delimiter(sample) ==
    LET counts == [i \in DOMAIN delimiters |-> Count(sample, delimiters[i])]
        best == CHOOSE i \in DOMAIN delimiters :
                    /\ \A j \in DOMAIN delimiters : counts[j] <= counts[i]
                    /\ \A j \in DOMAIN delimiters : j < i => counts[j] < counts[i]
    IN  delimiters[best]

-----------------------------------------------------------------------------
(* normalize_column_name *)

\* re.sub(r'[^a-zA-Z0-9]', '_', name)
re_sub_non_alnum(name) ==
    [i \in DOMAIN name |->
        IF IsAsciiLetter(name[i]) \/ IsAsciiDigit(name[i]) THEN name[i] ELSE "_"]

normalize_column_name(name) == str_lower(re_sub_non_alnum(name))

-----------------------------------------------------------------------------
(* parse_amount *)

\* str.isdigit(): non-empty and every character a digit character; the
\* superscript digits count as digit characters.
isdigit(s) == /\ s # <<>>
              /\ \A i \in DOMAIN s : IsAsciiDigit(s[i]) \/ s[i] = SuperscriptTwo

\* What a function call does: returns a value or raises an exception.
Returned(v) == [raised |-> NoValue, msg |-> <<>>, val |-> v]
Raised(exc, text) == [raised |-> exc, msg |-> text, val |-> NoValue]

\* Decimal(value) / 100. The Decimal constructor accepts decimal digits only
\* and raises InvalidOperation (ConversionSyntax) on anything else. The
\* quotient is exact at these lengths (the context precision is 28 digits)
\* and takes the exponent nearest the ideal exponent 0 that represents it:
\* 450/100 is 4.5 (coefficient 45, exponent -1), 100/100 is 1.
decimal_div_100(digits) ==
    IF \E i \in DOMAIN digits : ~IsAsciiDigit(digits[i])
    THEN Raised("InvalidOperation", <<digits>>)
    ELSE LET n == ToInt(digits)
         IN  Returned(IF n % 100 = 0 THEN [coef |-> n \div 100, exp |-> 0]
                      ELSE IF n % 10 = 0 THEN [coef |-> n \div 10, exp |-> -1]
                      ELSE [coef |-> n, exp |-> -2])

parse_amount(v) ==
    LET stripped == RemoveChar(RemoveChar(v, ","), ".")
    IN  IF ~isdigit(stripped)
        THEN Raised("ValueError", <<stripped>>)
        ELSE decimal_div_100(stripped)

\* str(d) of a Decimal with exponent in -2..0
decimal_str(d) ==
    IF d.exp = 0 THEN IntToStr(d.coef)
    ELSE LET digs == ZeroPad(IntToStr(d.coef), 1 - d.exp)
             cut == Len(digs) + d.exp
         IN  SubSeq(digs, 1, cut) \o <<".">> \o SubSeq(digs, cut + 1, Len(digs))

-----------------------------------------------------------------------------
(* parse_date *)

\* str.split on any of the characters of seps, empty parts kept
RECURSIVE Split(_, _)
Split(s, seps) ==
    IF \A i \in DOMAIN s : s[i] \notin seps THEN <<s>>
    ELSE LET k == CHOOSE i \in DOMAIN s :
                      s[i] \in seps /\ \A j \in 1..(i - 1) : s[j] \notin seps
         IN  <<SubSeq(s, 1, k - 1)>> \o Split(SubSeq(s, k + 1, Len(s)), seps)

IsLeap(y) == (y % 4 = 0 /\ y % 100 # 0) \/ y % 400 = 0

DaysInMonth(y, m) == IF m = 2 THEN (IF IsLeap(y) THEN 29 ELSE 28)
                     ELSE IF m \in {4, 6, 9, 11} THEN 30 ELSE 31

\* datetime.strftime('%Y-%m-%d')
strftime(d) == ZeroPad(IntToStr(d.year), 4) \o <<"-">> \o ZeroPad(IntToStr(d.month), 2)
               \o <<"-">> \o ZeroPad(IntToStr(d.day), 2)

\* default.replace(year, month, day): the date, or ValueError when it is no
\* calendar date
make_date(y, m, d, text) ==
    IF m \in 1..12 /\ d >= 1 /\ d <= DaysInMonth(y, m)
    THEN Returned([year |-> y, month |-> m, day |-> d])
    ELSE Raised("ParserError", <<text>>)

\* dateutil.parser.parse(value), with its default of datetime.now(), on the
\* all-numeric forms: two or three numbers separated by '-' or '/', a year
\* written with four digits. A first number written with four digits or
\* greater than 31 is the year; otherwise the first number is the month,
\* unless it is greater than 12, and then it is the day. What the text
\* omits is taken from the default: the year of today, and the day of today
\* cut to the length of the month. Anything else is an unknown format.
dateutil_parse(text, default) ==
    LET parts == Split(text, {"-", "/"})
        n == [i \in DOMAIN parts |-> ToInt(parts[i])]
    IN  IF \E i \in DOMAIN parts : parts[i] = <<>> \/ \E j \in DOMAIN parts[i] : ~IsAsciiDigit(parts[i][j])
        THEN Raised("ParserError", <<text>>)
        ELSE IF Len(parts) = 3
        THEN IF Len(parts[1]) = 4 \/ n[1] > 31 THEN make_date(n[1], n[2], n[3], text)
             ELSE IF n[1] > 12 THEN make_date(n[3], n[2], n[1], text)
             ELSE make_date(n[3], n[1], n[2], text)
        ELSE IF Len(parts) = 2
        THEN IF Len(parts[1]) = 4 \/ n[1] > 31
             THEN make_date(n[1], n[2], IF default.day > DaysInMonth(n[1], n[2]) /\ n[2] \in 1..12
                                        THEN DaysInMonth(n[1], n[2]) ELSE default.day, text)
             ELSE IF Len(parts[2]) = 4 \/ n[2] > 31
             THEN make_date(n[2], n[1], IF default.day > DaysInMonth(n[2], n[1]) /\ n[1] \in 1..12
                                        THEN DaysInMonth(n[2], n[1]) ELSE default.day, text)
             ELSE make_date(default.year, n[1], n[2], text)
        ELSE Raised("ParserError", <<text>>)

\* Variant: the year printed is always that of the current date
parse_date_year_of_today(v, now) ==
    LET d == dateutil_parse(v, now)
    IN  IF d.raised # NoValue THEN d ELSE Returned(strftime([d.val EXCEPT !.year = now.year]))

\* parser.parse(value).strftime('%Y-%m-%d')
parse_date(v, now) ==
    LET d == dateutil_parse(v, now)
    IN  IF d.raised # NoValue THEN d ELSE Returned(strftime(d.val))

-----------------------------------------------------------------------------
(* csv.reader(StringIO(text), delimiter=delimiter, quotechar='"') *)

csv_start == [rows |-> <<>>, row |-> <<>>, field |-> <<>>, state |-> "START_RECORD"]

csv_save_field(st, next) ==
    [st EXCEPT !.row = Append(st.row, st.field), !.field = <<>>, !.state = next]

csv_end_row(st) ==
    [rows |-> Append(st.rows, Append(st.row, st.field)), row |-> <<>>,
     field |-> <<>>, state |-> "START_RECORD"]

csv_add_char(st, c, next) == [st EXCEPT !.field = Append(st.field, c), !.state = next]

\* One character of the reader's state machine (dialect excel: doublequote,
\* no escapechar, no skipinitialspace, not strict). An empty line is an
\* empty row.
csv_step(st, c, delimiter) ==
    IF st.state \in {"START_RECORD", "START_FIELD"}
    THEN IF c = "\n"
         THEN IF st.state = "START_RECORD"
              THEN [st EXCEPT !.rows = Append(st.rows, <<>>)]
              ELSE csv_end_row(st)
         ELSE IF c = "\"" THEN [st EXCEPT !.state = "IN_QUOTED_FIELD"]
         ELSE IF c = delimiter THEN csv_save_field(st, "START_FIELD")
         ELSE csv_add_char(st, c, "IN_FIELD")
    ELSE IF st.state = "IN_FIELD"
    THEN IF c = "\n" THEN csv_end_row(st)
         ELSE IF c = delimiter THEN csv_save_field(st, "START_FIELD")
         ELSE csv_add_char(st, c, "IN_FIELD")
    ELSE IF st.state = "IN_QUOTED_FIELD"
    THEN IF c = "\"" THEN [st EXCEPT !.state = "QUOTE_IN_QUOTED_FIELD"]
         ELSE csv_add_char(st, c, "IN_QUOTED_FIELD")
    ELSE \* QUOTE_IN_QUOTED_FIELD
         IF c = "\"" THEN csv_add_char(st, c, "IN_QUOTED_FIELD")
         ELSE IF c = delimiter THEN csv_save_field(st, "START_FIELD")
         ELSE IF c = "\n" THEN csv_end_row(st)
         ELSE csv_add_char(st, c, "IN_FIELD")

csv_states == {"START_RECORD", "START_FIELD", "IN_FIELD", "IN_QUOTED_FIELD",
               "QUOTE_IN_QUOTED_FIELD"}

\* The reader's state after the characters lo..hi of the text, begun in
\* state st: the left half is read first, then the right half from the
\* state the left half ended in
RECURSIVE csv_scan(_, _, _, _, _)
csv_scan(text, delimiter, lo, hi, st) ==
    IF lo > hi THEN st
    ELSE IF lo = hi THEN csv_step(st, text[lo], delimiter)
    ELSE LET mid == (lo + hi) \div 2
             left == csv_scan(text, delimiter, lo, mid, st)
         IN  CASE left.state \in csv_states -> csv_scan(text, delimiter, mid + 1, hi, left)

\* list(csv.reader(...)): at the end of the text a record in progress is a row
csv_reader(text, delimiter) ==
    LET fin == csv_scan(text, delimiter, 1, Len(text), csv_start)
    IN  IF fin.state = "START_RECORD" THEN fin.rows ELSE csv_end_row(fin).rows

\* str.strip()
Whitespace == {" ", "\n", "\t"}
strip(s) ==
    IF \A i \in DOMAIN s : s[i] \in Whitespace THEN <<>>
    ELSE LET a == CHOOSE i \in DOMAIN s :
                      s[i] \notin Whitespace /\ \A j \in 1..(i - 1) : s[j] \in Whitespace
             b == CHOOSE i \in DOMAIN s :
                      s[i] \notin Whitespace /\ \A j \in (i + 1)..Len(s) : s[j] \in Whitespace
         IN  SubSeq(s, a, b)

-----------------------------------------------------------------------------
(* The files uploaded *)

HeaderKinds == {"none", "canonical", "short_names"}

HeaderTokens(h) ==
    IF h = "canonical"
    THEN <<<<"T", "r", "a", "n", "s", "a", "c", "t", "i", "o", "n", " ", "D", "a", "t", "e">>, <<"D", "e", "s", "c", "r", "i", "p", "t", "i", "o", "n">>, <<"A", "m", "o", "u", "n", "t">>, <<"C", "u", "r", "r", "e", "n", "c", "y">>, <<"S", "t", "a", "t", "u", "s">>>>
    ELSE <<<<"d", "a", "t", "e">>, <<"d", "e", "s", "c", "r", "i", "p", "t", "i", "o", "n">>, <<"a", "m", "o", "u", "n", "t">>, <<"c", "u", "r", "r", "e", "n", "c", "y">>, <<"s", "t", "a", "t", "u", "s">>>>

RowKinds == {"plain", "quoted", "short", "baddate", "badamount"}

RowTokens(k) ==
    CASE k = "plain" -> <<<<"2", "0", "2", "3", "-", "0", "1", "-", "0", "5">>, <<"C", "o", "f", "f", "e", "e">>, <<"4", ".", "5", "0">>, <<"U", "S", "D">>, <<"c", "o", "m", "p", "l", "e", "t", "e", "d">>>>
      [] k = "quoted" -> <<<<"0", "1", "-", "0", "5">>, <<"T", "e", "a">>, <<"1", ",", "2", "3", "4", ".", "5", "6">>, <<"E", "U", "R">>, <<"P", "E", "N", "D", "I", "N", "G">>, <<"x">>>>
      [] k = "short" -> <<<<"o", "o", "p", "s">>, <<"C", "o", "f", "f", "e", "e">>, <<"4", ".", "5", "0">>, <<"U", "S", "D">>>>
      [] k = "baddate" -> <<<<"2", "0", "2", "3", "-", "0", "2", "-", "3", "0">>, <<"C", "o", "f", "f", "e", "e">>, <<"1", "2", "a", ".", "3", "4">>, <<"U", "S", "D">>, <<"c", "o", "m", "p", "l", "e", "t", "e", "d">>>>
      [] k = "badamount" -> <<<<"2", "0", "2", "3", "-", "0", "1", "-", "0", "5">>, <<"C", "o", "f", "f", "e", "e">>, <<"-", "5", ".", "0", "0">>, <<"U", "S", "D">>, <<"c", "o", "m", "p", "l", "e", "t", "e", "d">>>>

SeqsUpTo(S, n) == UNION {[1..k -> S] : k \in 0..n}

Uploads == {[header |-> h, rows |-> r] : h \in HeaderKinds, r \in SeqsUpTo(RowKinds, MaxRows)}

\* A field as a CSV writer writes it: in double quotes when it holds a comma
WriteField(tok) == IF \E i \in DOMAIN tok : tok[i] = "," THEN <<"\"">> \o tok \o <<"\"">> ELSE tok

RECURSIVE WriteLine(_)
WriteLine(toks) ==
    IF Len(toks) = 1 THEN WriteField(toks[1]) \o <<"\n">>
    ELSE WriteField(toks[1]) \o <<",">> \o WriteLine(Tail(toks))

RECURSIVE WriteLines(_)
WriteLines(kinds) ==
    IF kinds = <<>> THEN <<>> ELSE WriteLine(RowTokens(kinds[1])) \o WriteLines(Tail(kinds))

\* The bytes of the file: the header line if any, then the rows, each line
\* ended by a newline
Render(d) ==
    (IF d.header = "none" THEN <<>> ELSE WriteLine(HeaderTokens(d.header))) \o WriteLines(d.rows)

\* list(csv.reader(StringIO(file_content), delimiter=detect_delimiter(file_content),
\* quotechar='"')), as upload_csv and process_csv both compute it
list_csv_reader(file_content) == csv_reader(file_content, detect_delimiter(file_content))

\* The same, computed once for each file that can be uploaded
Contents == {strip(Render(d)) : d \in Uploads}
RowsOfContent == [c \in Contents |-> list_csv_reader(c)]
read_rows(file_content) == RowsOfContent[file_content]

-----------------------------------------------------------------------------
(* process_csv and upload_csv *)

canonical_columns == {<<"t", "r", "a", "n", "s", "a", "c", "t", "i", "o", "n", "_", "d", "a", "t", "e">>, <<"d", "e", "s", "c", "r", "i", "p", "t", "i", "o", "n">>, <<"a", "m", "o", "u", "n", "t">>,
                      <<"c", "u", "r", "r", "e", "n", "c", "y">>, <<"s", "t", "a", "t", "u", "s">>}

NoResult == [code |-> 0, error |-> NoValue, detail |-> <<>>, data |-> <<>>]

\* jsonify({'error': ...}), code; detail is the text the message quotes
ErrorResult(code, message, detail) ==
    [code |-> code, error |-> message, detail |-> detail, data |-> <<>>]

\* jsonify({'message': 'Data processed successfully', 'data': processed_data})
SuccessResult(records) ==
    [code |-> 200, error |-> NoValue, detail |-> <<>>, data |-> records]

\* Variant: the test len(rows) > 1 left out
has_header_without_row_count(rows) ==
    \A c \in DOMAIN rows[1] : normalize_column_name(rows[1][c]) \in canonical_columns

\* upload_csv: has_header = len(rows) > 1 and all(normalize_column_name(col)
\* in {...} for col in rows[0])
classify_header(rows) ==
    /\ Len(rows) > 1
    /\ \A c \in DOMAIN rows[1] : normalize_column_name(rows[1][c]) \in canonical_columns

\* process_csv up to the loop: the rows to normalize, or the early error
process_csv_begin(file_content, has_header) ==
    LET rows == read_rows(file_content)
        data == IF has_header THEN Tail(rows) ELSE rows
    IN  IF rows = <<>> THEN [error |-> "CSV file contains no data", data_rows |-> <<>>]
        ELSE IF data = <<>> THEN [error |-> "No valid data rows found", data_rows |-> <<>>]
        ELSE [error |-> NoValue, data_rows |-> data]

\* Variant: the amount is parsed before the date
transaction_data_amount_first(row, now) ==
    LET date == parse_date(row[1], now)
        amount == parse_amount(row[3])
    IN  IF amount.raised # NoValue THEN amount
        ELSE IF date.raised # NoValue THEN date
        ELSE Returned([transaction_date |-> date.val,
                       description |-> row[2],
                       amount |-> decimal_str(amount.val),
                       currency |-> row[4],
                       status |-> str_lower(row[5])])

\* Variant: an amount that does not parse is recorded as 0 instead of raising
transaction_data_amount_unchecked(row, now) ==
    LET date == parse_date(row[1], now)
        amount == parse_amount(row[3])
    IN  IF date.raised # NoValue THEN date
        ELSE Returned([transaction_date |-> date.val,
                       description |-> row[2],
                       amount |-> IF amount.raised # NoValue THEN <<"0">>
                                  ELSE decimal_str(amount.val),
                       currency |-> row[4],
                       status |-> str_lower(row[5])])

\* Variant: the status is copied as written
transaction_data_status_verbatim(row, now) ==
    LET date == parse_date(row[1], now)
        amount == parse_amount(row[3])
    IN  IF date.raised # NoValue THEN date
        ELSE IF amount.raised # NoValue THEN amount
        ELSE Returned([transaction_date |-> date.val,
                       description |-> row[2],
                       amount |-> decimal_str(amount.val),
                       currency |-> row[4],
                       status |-> row[5]])

\* The dict display transaction_data: its values are evaluated in the order
\* written, so parse_date raises before parse_amount is called.
transaction_data(row, now) ==
    LET date == parse_date(row[1], now)
        amount == parse_amount(row[3])
    IN  IF date.raised # NoValue THEN date
        ELSE IF amount.raised # NoValue THEN amount
        ELSE Returned([transaction_date |-> date.val,
                       description |-> row[2],
                       amount |-> decimal_str(amount.val),
                       currency |-> row[4],
                       status |-> str_lower(row[5])])

\* len(row) < 5
too_few_columns(row) == Len(row) < 5

\* str(e) of the exception upload_csv catches
exception_message(e) ==
    IF e.raised = "ValueError" THEN "Invalid amount"
    ELSE IF e.raised = "InvalidOperation" THEN "ConversionSyntax"
    ELSE "Unknown string format or date out of range"

\* Variant: the session outlives the context with what was added to it
app_context_exit_keeps_session(pending) == pending

\* Leaving 'with app.app_context()', by return, by exception or off its end:
\* the context's teardown removes the session, which rolls back and drops
\* whatever was added and not committed.
app_context_exit(pending) == <<>>

\* db.session.commit(): the added objects become rows, in the order added
session_commit(table, pending) == table \o pending

NoUpload == [header |-> "none", rows |-> <<>>]

\* upload_csv from file.read() to the entry of the loop of process_csv
upload_csv(f) ==
    /\ pc = "idle"
    /\ sink0' = sink
    /\ LET file_content == strip(f)
           rows == read_rows(file_content)
           has_header == classify_header(rows)
           begin == process_csv_begin(file_content, has_header)
           early == IF file_content = <<>> THEN ErrorResult(400, "Empty file", <<>>)
                    ELSE IF rows = <<>> THEN ErrorResult(400, "CSV file contains no data", <<>>)
                    ELSE IF ~has_header /\ Len(rows) < 1
                    THEN ErrorResult(400, "No valid data rows in CSV", <<>>)
                    ELSE IF begin.error # NoValue THEN ErrorResult(200, begin.error, <<>>)
                    ELSE NoResult
       IN  IF early # NoResult
           THEN /\ pc' = "done"
                /\ result' = early
                /\ data_rows' = <<>>
                /\ idx' = 0
           ELSE /\ pc' = "loop"
                /\ result' = NoResult
                /\ data_rows' = begin.data_rows
                /\ idx' = 1
    /\ processed_data' = <<>>
    /\ UNCHANGED <<today, session, sink>>

\* One pass of the loop on a row with fewer than 5 columns: return the error
malformed_row ==
    /\ pc = "loop"
    /\ idx <= Len(data_rows)
    /\ too_few_columns(data_rows[idx])
    /\ result' = ErrorResult(200, "Malformed row", data_rows[idx])
    /\ session' = app_context_exit(session)
    /\ pc' = "done"
    /\ UNCHANGED <<today, today0, prev, sink, file, data_rows, idx, processed_data, sink0>>

\* One pass of the loop in which parse_date or parse_amount raises: the
\* exception leaves process_csv and upload_csv answers 500 with str(e)
row_raises ==
    /\ pc = "loop"
    /\ idx <= Len(data_rows)
    /\ ~too_few_columns(data_rows[idx])
    /\ LET t == transaction_data(data_rows[idx], today)
       IN  /\ t.raised # NoValue
           /\ result' = ErrorResult(500, exception_message(t), t.msg)
    /\ session' = app_context_exit(session)
    /\ pc' = "done"
    /\ UNCHANGED <<today, today0, prev, sink, file, data_rows, idx, processed_data, sink0>>

\* One pass of the loop on a row that normalizes: append it and add it to
\* the session
row_added ==
    /\ pc = "loop"
    /\ idx <= Len(data_rows)
    /\ ~too_few_columns(data_rows[idx])
    /\ LET t == transaction_data(data_rows[idx], today)
       IN  /\ t.raised = NoValue
           /\ processed_data' = Append(processed_data, t.val)
           /\ session' = Append(session, t.val)
    /\ idx' = idx + 1
    /\ UNCHANGED <<today, today0, prev, sink, pc, file, data_rows, result, sink0>>

\* After the last row: db.session.commit(), leave the context, return
commit ==
    /\ pc = "loop"
    /\ idx > Len(data_rows)
    /\ sink' = session_commit(sink, session)
    /\ session' = app_context_exit(<<>>)
    /\ result' = SuccessResult(processed_data)
    /\ pc' = "done"
    /\ UNCHANGED <<today, today0, prev, file, data_rows, idx, processed_data, sink0>>

\* The response is sent; the locals of the request are gone
respond ==
    /\ pc = "done"
    /\ pc' = "idle"
    /\ file' = NoUpload
    /\ sink0' = sink
    /\ data_rows' = <<>>
    /\ idx' = 0
    /\ processed_data' = <<>>
    /\ result' = NoResult
    /\ today0' = today
    /\ UNCHANGED <<today, session, sink>>

\* A new day begins
Todays == <<[year |-> 2023, month |-> 12, day |-> 31],
            [year |-> 2024, month |-> 1, day |-> 1]>>

tick ==
    /\ \E i \in 1..(Len(Todays) - 1) : today = Todays[i] /\ today' = Todays[i + 1]
    /\ UNCHANGED <<session, sink, pc, file, data_rows, idx, processed_data, result,
                   sink0, today0, prev>>

-----------------------------------------------------------------------------
(* The pipeline as a system: requests one after another *)

request(d) ==
    /\ file' = d
    /\ today0' = today
    /\ upload_csv(Render(d))
    /\ UNCHANGED <<prev, amountVars, delimiterVars>>

InitPipeline ==
    /\ today \in Range(Todays)
    /\ session = <<>>
    /\ sink = <<>>
    /\ pc = "idle"
    /\ file = NoUpload
    /\ data_rows = <<>>
    /\ idx = 0
    /\ processed_data = <<>>
    /\ result = NoResult
    /\ sink0 = <<>>
    /\ today0 = today
    /\ prev = <<>>

NotCalled == [raised |-> "not called", msg |-> <<>>, val |-> NoValue]

InitAmount == value = <<>> /\ parsed = NotCalled
InitDelimiter == sample_data = <<>> /\ detected = NoValue

Init == InitPipeline /\ InitAmount /\ InitDelimiter

\* Requests are taken while the table holds fewer than MaxSink rows
Next ==
    \/ \E d \in Uploads : Len(sink) < MaxSink /\ request(d)
    \/ malformed_row /\ UNCHANGED <<amountVars, delimiterVars>>
    \/ row_raises /\ UNCHANGED <<amountVars, delimiterVars>>
    \/ row_added /\ UNCHANGED <<amountVars, delimiterVars>>
    \/ commit /\ UNCHANGED <<amountVars, delimiterVars>>
    \/ respond /\ UNCHANGED <<prev, amountVars, delimiterVars>>

Spec == Init /\ [][Next]_vars

-----------------------------------------------------------------------------
(* The same file uploaded again, on the same day or a later one *)

remember ==
    prev' = IF prev = <<>>
            THEN <<[file |-> file, began |-> today0, ended |-> today, result |-> result]>>
            ELSE prev

\* The first file is any file; every later request uploads the same file
\* again, while the table holds no more than MaxRows rows
NextRerun ==
    \/ \E d \in Uploads : /\ Len(sink) <= MaxRows
                           /\ (IF prev = <<>> THEN TRUE ELSE d = prev[1].file)
                           /\ request(d)
    \/ malformed_row /\ UNCHANGED <<amountVars, delimiterVars>>
    \/ row_raises /\ UNCHANGED <<amountVars, delimiterVars>>
    \/ row_added /\ UNCHANGED <<amountVars, delimiterVars>>
    \/ commit /\ UNCHANGED <<amountVars, delimiterVars>>
    \/ respond /\ remember /\ UNCHANGED <<amountVars, delimiterVars>>
    \/ tick /\ UNCHANGED <<amountVars, delimiterVars>>

SpecRerun == Init /\ [][NextRerun]_vars

-----------------------------------------------------------------------------
(* parse_amount called on its own *)

AmountChars == {"0", "4", "5", ",", ".", "-", "a", SuperscriptTwo}

call_parse_amount ==
    /\ parsed = NotCalled
    /\ parsed' = parse_amount(value)
    /\ UNCHANGED <<value, pipelineVars, delimiterVars>>

InitAmountCall ==
    /\ InitPipeline /\ today = Todays[1]
    /\ InitDelimiter
    /\ value \in SeqsUpTo(AmountChars, MaxAmountLen)
    /\ parsed = NotCalled

SpecAmount == InitAmountCall /\ [][call_parse_amount]_vars

-----------------------------------------------------------------------------
(* detect_delimiter called on its own *)

SampleChars == {",", ";", "|", "\"", "x"}

call_detect_delimiter ==
    /\ detected = NoValue
    /\ detected' = detect_delimiter(sample_data)
    /\ UNCHANGED <<sample_data, pipelineVars, amountVars>>

InitDelimiterCall ==
    /\ InitPipeline /\ today = Todays[1]
    /\ InitAmount
    /\ sample_data \in SeqsUpTo(SampleChars, MaxSampleLen)
    /\ detected = NoValue

SpecDelimiter == InitDelimiterCall /\ [][call_detect_delimiter]_vars

-----------------------------------------------------------------------------
(* What the files hold, as they were written: the reference the pipeline's  *)
(* results are compared with                                               *)

\* The first line is a header: its names are the canonical ones and a row
\* follows it
WrittenWithHeader(f) == f.header = "canonical" /\ f.rows # <<>>

\* The kinds of the data rows, in file order; a first line that is not a
\* header is a data row of kind "names"
DataKinds(f) ==
    (IF f.header = "none" \/ WrittenWithHeader(f) THEN <<>> ELSE <<"names">>) \o f.rows

KindTokens(f, k) == IF k = "names" THEN HeaderTokens(f.header) ELSE RowTokens(k)

DataTokens(f) == [i \in DOMAIN DataKinds(f) |-> KindTokens(f, DataKinds(f)[i])]

ValidKinds == {"plain", "quoted"}

\* The first check a row of the kind fails, as the message that reports it
DateMessage == "Unknown string format or date out of range"
KindError(k) ==
    CASE k = "short" -> "Malformed row"
      [] k \in {"baddate", "names"} -> DateMessage
      [] k = "badamount" -> "Invalid amount"
      [] OTHER -> NoValue

\* The text the message quotes: the row, its date or what is left of its amount
KindDetail(f, k) ==
    CASE k = "short" -> KindTokens(f, k)
      [] k \in {"baddate", "names"} -> <<KindTokens(f, k)[1]>>
      [] k = "badamount" -> <<<<"-", "5", "0", "0">>>>
      [] OTHER -> <<>>

HasInvalidRow(f) == \E i \in DOMAIN DataKinds(f) : DataKinds(f)[i] \notin ValidKinds

FirstInvalid(f) ==
    CHOOSE i \in DOMAIN DataKinds(f) :
        /\ DataKinds(f)[i] \notin ValidKinds
        /\ \A j \in 1..(i - 1) : DataKinds(f)[j] \in ValidKinds

YearText(now) == IF now.year = 2023 THEN <<"2", "0", "2", "3">> ELSE <<"2", "0", "2", "4">>

\* The fields of the record of a valid row other than its amount
KindRecord(k, now) ==
    IF k = "plain"
    THEN [transaction_date |-> <<"2", "0", "2", "3", "-", "0", "1", "-", "0", "5">>, description |-> <<"C", "o", "f", "f", "e", "e">>,
          currency |-> <<"U", "S", "D">>, status |-> <<"c", "o", "m", "p", "l", "e", "t", "e", "d">>]
    ELSE [transaction_date |-> YearText(now) \o <<"-", "0", "1", "-", "0", "5">>, description |-> <<"T", "e", "a">>,
          currency |-> <<"E", "U", "R">>, status |-> <<"p", "e", "n", "d", "i", "n", "g">>]

WithoutAmount(r) ==
    [transaction_date |-> r.transaction_date, description |-> r.description,
     currency |-> r.currency, status |-> r.status]

Succeeded == pc = "done" /\ result.error = NoValue
Failed == pc = "done" /\ result.error # NoValue

-----------------------------------------------------------------------------
(* Claims *)

\* C1: all-or-nothing per file. When a data row of the file is invalid, the
\* request ends with an error result that carries no record and the table is
\* as it was before the request, whatever number of valid rows precede the
\* invalid one; nothing is persisted while rows are still being normalized.
C1_AllOrNothing ==
    /\ pc = "loop" => sink = sink0
    /\ (pc = "done" /\ HasInvalidRow(file)) =>
           /\ result.error # NoValue
           /\ result.data = <<>>
           /\ sink = sink0
    /\ (pc = "done" /\ sink # sink0) => ~HasInvalidRow(file)

C1_Witness ==
    /\ Failed
    /\ Len(file.rows) = MaxRows
    /\ \A i \in 1..(MaxRows - 1) : file.rows[i] \in ValidKinds
    /\ file.rows[MaxRows] = "short"
    /\ Len(processed_data) = MaxRows - 1
    /\ sink = sink0

\* C2: the input "date,description,amount,currency,status\n2023-01-05,Coffee,
\* 4.50,USD,completed\n" yields a success result with exactly one record
\* {transactionDate "2023-01-05", description "Coffee", amount "4.50",
\* currency "USD", status "completed"}; the first row is a header.
C2_Input == <<"d", "a", "t", "e", ",", "d", "e", "s", "c", "r", "i", "p", "t", "i", "o", "n", ",", "a", "m", "o", "u", "n", "t", ",", "c", "u", "r", "r", "e", "n", "c", "y", ",", "s", "t", "a", "t", "u", "s", "\n", "2", "0", "2", "3", "-", "0", "1", "-", "0", "5", ",", "C", "o", "f", "f", "e", "e", ",", "4", ".", "5", "0", ",", "U", "S", "D", ",", "c", "o", "m", "p", "l", "e", "t", "e", "d", "\n">>

C2_EndToEnd ==
    (pc = "done" /\ Render(file) = C2_Input) =>
        /\ result.error = NoValue
        /\ result.data = <<[transaction_date |-> <<"2", "0", "2", "3", "-", "0", "1", "-", "0", "5">>,
                            description |-> <<"C", "o", "f", "f", "e", "e">>,
                            amount |-> <<"4", ".", "5", "0">>,
                            currency |-> <<"U", "S", "D">>,
                            status |-> <<"c", "o", "m", "p", "l", "e", "t", "e", "d">>]>>

\* C3: for every amount string parse_amount accepts, the amount of the record,
\* str(Decimal(digits) / 100), has exactly two fractional digits.
C3_TwoFractionalDigits ==
    parsed.raised = NoValue =>
        LET text == decimal_str(parsed.val)
        IN  /\ Len(text) >= 4
            /\ text[Len(text) - 2] = "."
            /\ \A i \in DOMAIN text : i # Len(text) - 2 => IsAsciiDigit(text[i])

\* C4: detect_delimiter returns one of comma, semicolon, pipe: the candidate
\* with the highest raw count in the sample, and among candidates that share
\* the highest count the first in the order comma, semicolon, pipe; a sample
\* with none of them gives comma.
Occurrences(c) == Len(SelectSeq(sample_data, LAMBDA x : x = c))

C4_DetectDelimiter ==
    detected # NoValue =>
        /\ detected \in {",", ";", "|"}
        /\ detected = "," => /\ Occurrences(",") >= Occurrences(";")
                             /\ Occurrences(",") >= Occurrences("|")
        /\ detected = ";" => /\ Occurrences(";") > Occurrences(",")
                             /\ Occurrences(";") >= Occurrences("|")
        /\ detected = "|" => /\ Occurrences("|") > Occurrences(",")
                             /\ Occurrences("|") > Occurrences(";")

C4_Witness ==
    /\ detected = ";"
    /\ Occurrences(";") = Occurrences("|")
    /\ Occurrences(",") < Occurrences(";")
    /\ Occurrences("\"") > 0

\* C5: row 0 is skipped as a header if and only if the file has more than one
\* row and every token of row 0 normalizes to a canonical column name;
\* otherwise every row, row 0 included, is normalized as data. A file of the
\* canonical header line alone is processed as one data row.
C5_HeaderClassification ==
    pc \in {"loop", "done"} => data_rows = DataTokens(file)

C5_Witness ==
    /\ pc = "done"
    /\ file = [header |-> "canonical", rows |-> <<>>]
    /\ data_rows = <<HeaderTokens("canonical")>>
    /\ result.error = DateMessage

\* C6: parse_amount removes every ',' and '.', fails with the invalid-amount
\* error when what is left is empty or holds a character that is no decimal
\* digit, and otherwise returns what is left, read as an integer, divided by
\* 100 (so inputs that differ only in their ',' and '.' give the same value).
Punctuation == {",", "."}
LeftOf(v) == SelectSeq(v, LAMBDA x : x \notin Punctuation)
Hundredths(d) == IF d.exp = 0 THEN d.coef * 100
                 ELSE IF d.exp = -1 THEN d.coef * 10 ELSE d.coef

C6_ParseAmount ==
    parsed # NotCalled =>
        IF LeftOf(value) = <<>> \/ \E i \in DOMAIN LeftOf(value) : ~IsAsciiDigit(LeftOf(value)[i])
        THEN parsed.raised = "ValueError"
        ELSE parsed.raised = NoValue /\ Hundredths(parsed.val) = ToInt(LeftOf(value))

\* C7: first failure wins. A failed request reports one error, that of the
\* earliest invalid data row in file order, and no later row is examined;
\* within the row the column count is checked first, then the date of column
\* 0, then the amount of column 2.
C7_FirstFailureWins ==
    /\ (pc = "loop" /\ HasInvalidRow(file)) => idx <= FirstInvalid(file)
    /\ (pc = "done" /\ HasInvalidRow(file)) =>
           LET k == FirstInvalid(file)
           IN  /\ idx = k
               /\ Len(processed_data) = k - 1
               /\ result.error = KindError(DataKinds(file)[k])
               /\ result.detail = KindDetail(file, DataKinds(file)[k])

C7_Witness ==
    /\ Failed
    /\ Len(file.rows) = MaxRows
    /\ file.rows[MaxRows - 1] = "baddate"
    /\ file.rows[MaxRows] = "short"
    /\ result.error = DateMessage

\* C8: on full success the result holds one record per data row, in row
\* order, built from tokens 0-4 of the row (description and currency as
\* written, status lower-cased, tokens past the fifth ignored); the table
\* receives the same records in the same order, in one commit made after the
\* last row was normalized.
C8_SuccessBatch ==
    /\ pc = "loop" => /\ sink = sink0
                      /\ session = processed_data
    /\ Succeeded =>
           /\ Len(result.data) = Len(DataKinds(file))
           /\ \A i \in DOMAIN result.data :
                  WithoutAmount(result.data[i]) = KindRecord(DataKinds(file)[i], today)
           /\ sink = sink0 \o result.data

C8_Witness ==
    /\ Succeeded
    /\ Len(result.data) = MaxRows
    /\ file.rows[1] = "quoted"
    /\ file.rows[MaxRows] = "plain"
    /\ file.header = "canonical"
    /\ sink0 # <<>>

\* C9 as claimed: two requests with the same file bytes give the same result,
\* whatever the current date is and whatever earlier requests did.
SameFileAgain == pc = "done" /\ prev # <<>> /\ file = prev[1].file

C9_SameBytesSameResult ==
    SameFileAgain => result = prev[1].result

\* C9 as amended: two requests with the same file bytes give the same result
\* when the current date is the same throughout both requests, or when no
\* date of the file leaves its year to the current date.
SameDay == /\ prev[1].began = prev[1].ended
           /\ today0 = prev[1].began
           /\ today = today0

YearWritten(f) == \A i \in DOMAIN f.rows : f.rows[i] # "quoted"

C9_SameBytesSameDaySameResult ==
    (SameFileAgain /\ (SameDay \/ YearWritten(file))) => result = prev[1].result

C9_Witness ==
    /\ SameFileAgain
    /\ SameDay
    /\ ~YearWritten(file)
    /\ result.error = NoValue
    /\ result.data # <<>>
    /\ result = prev[1].result

\* C10: no carry-over between requests. What a failed request added to the
\* session is dropped with the request and is never committed by a later
\* one; a successful request leaves the table longer by exactly its own
\* records, a failed request leaves it as it was.
C10_NoCarryOver ==
    /\ pc \in {"idle", "done"} => session = <<>>
    /\ pc = "idle" => sink = sink0
    /\ Succeeded => sink = sink0 \o processed_data
    /\ Failed => sink = sink0

C10_Witness ==
    /\ Failed
    /\ processed_data # <<>>
    /\ session = <<>>
    /\ sink0 # <<>>
    /\ sink = sink0

====
